---- MODULE Spec2Model ----
(***************************************************************************)
(* The lqe crate (src/src/lib.rs): a scalar Kalman filter.  An LQE value   *)
(* is a pair of f64 fields (measurement, variance); update, predict, next  *)
(* and result are methods taking &self and returning new values.           *)
(*                                                                         *)
(* f64 arithmetic is modelled as IEEE 754 binary floating point with       *)
(* round-to-nearest-even, signed zeros, infinities and NaN, at a reduced   *)
(* width: a Prec-bit significand and largest binary exponent ExpMax        *)
(* (binary64 is Prec = 53, ExpMax = 1023).  A value is a sign and an exact *)
(* rational magnitude num/den in lowest terms.  The variable arith selects *)
(* the reading of the operators: "float" rounds every operation to the     *)
(* format, "real" is the same code read over the reals (no rounding, no    *)
(* overflow), the reading in which the closed formulas are stated.         *)
(***************************************************************************)
EXTENDS Integers, Naturals, Sequences, FiniteSets, TLC

VARIABLES arith, lqes, made, last

vars == <<arith, lqes, made, last>>

\* ---- bounds of the model ------------------------------------------------
\* significand width in bits (53 in binary64)
Prec == 5
\* largest binary exponent of a finite value (1023 in binary64)
ExpMax == 7
\* number of LQE values a caller holds at once
MaxLQE == 3

\* exponent of the unit in the last place: smallest (subnormals) and largest
UlpMin == 2 - ExpMax - Prec
UlpMax == ExpMax - (Prec - 1)

\* ---- integers and rationals ----------------------------------------------
RECURSIVE Pow2(_)
Pow2(n) == IF n <= 0 THEN 1 ELSE 2 * Pow2(n - 1)

RECURSIVE GCD(_, _)
GCD(a, b) == IF b = 0 THEN a ELSE GCD(b, a % b)

\* ---- f64 values ------------------------------------------------------------
NaN == [cls |-> "nan", neg |-> FALSE, num |-> 0, den |-> 1]
Inf(neg) == [cls |-> "inf", neg |-> neg, num |-> 0, den |-> 1]
Zero(neg) == [cls |-> "fin", neg |-> neg, num |-> 0, den |-> 1]

\* the finite value (-1)^neg * n/d, in lowest terms (n > 0, d > 0)
Fin(neg, n, d) ==
  LET g == GCD(n, d)
  IN  [cls |-> "fin", neg |-> neg, num |-> n \div g, den |-> d \div g]

\* an integer literal such as 7.0 or -5.0
Num(i) == IF i < 0 THEN Fin(TRUE, -i, 1) ELSE Fin(FALSE, i, 1)

IsNaN(x) == x.cls = "nan"
IsInf(x) == x.cls = "inf"
IsFinite(x) == x.cls = "fin"
IsZero(x) == x.cls = "fin" /\ x.num = 0

\* n/d < 2^x, for n >= 0 and d > 0
Below(n, d, x) ==
  IF x >= 0
    THEN (n < d) \/ (n < d * Pow2(x))
    ELSE (n < d) /\ (n * Pow2(-x) < d)

\* N/D rounded to an integer, ties to even
RoundHalfEven(N, D) ==
  LET f == N \div D
      r == N % D
  IN  IF 2 * r < D THEN f
      ELSE IF 2 * r > D THEN f + 1
      ELSE IF f % 2 = 0 THEN f ELSE f + 1

\* the magnitude n/d (n > 0, lowest terms) rounded to the format:
\* round to nearest, ties to even; overflow to infinity, underflow through
\* the subnormals to zero
RoundNearest(neg, n, d) ==
  IF ~Below(n, d, Prec + UlpMax) THEN Inf(neg)
  ELSE
    LET e == CHOOSE e \in UlpMin..UlpMax :
                 /\ Below(n, d, Prec + e)
                 /\ (e = UlpMin \/ ~Below(n, d, Prec + e - 1))
        k == IF e < 0 THEN RoundHalfEven(n * Pow2(-e), d)
                      ELSE RoundHalfEven(n, d * Pow2(e))
    IN  IF k = 0 THEN Zero(neg)
        ELSE IF k = Pow2(Prec) /\ e = UlpMax THEN Inf(neg)
        ELSE IF e < 0 THEN Fin(neg, k, Pow2(-e))
        ELSE Fin(neg, k * Pow2(e), 1)

\* the result of one arithmetic operation whose exact value is (-1)^neg * N/D
Round(neg, N, D) ==
  IF N = 0 THEN Zero(neg)
  ELSE LET g == GCD(N, D)
       IN  IF arith = "real" THEN Fin(neg, N \div g, D \div g)
           ELSE RoundNearest(neg, N \div g, D \div g)

\* signed numerator of a finite value
SNum(x) == IF x.neg THEN -x.num ELSE x.num

\* f64 + f64
Add(x, y) ==
  IF IsNaN(x) \/ IsNaN(y) THEN NaN
  ELSE IF IsInf(x) /\ IsInf(y) THEN (IF x.neg = y.neg THEN x ELSE NaN)
  ELSE IF IsInf(x) THEN x
  ELSE IF IsInf(y) THEN y
  ELSE LET N == SNum(x) * y.den + SNum(y) * x.den
           D == x.den * y.den
       IN  IF N = 0 THEN Zero(x.neg /\ y.neg)
           ELSE IF N < 0 THEN Round(TRUE, -N, D)
           ELSE Round(FALSE, N, D)

\* f64 * f64
Mul(x, y) ==
  IF IsNaN(x) \/ IsNaN(y) THEN NaN
  ELSE IF (IsInf(x) /\ IsZero(y)) \/ (IsZero(x) /\ IsInf(y)) THEN NaN
  ELSE IF IsInf(x) \/ IsInf(y) THEN Inf(x.neg # y.neg)
  ELSE Round(x.neg # y.neg, x.num * y.num, x.den * y.den)

\* f64 / f64
Div(x, y) ==
  IF IsNaN(x) \/ IsNaN(y) THEN NaN
  ELSE IF (IsInf(x) /\ IsInf(y)) \/ (IsZero(x) /\ IsZero(y)) THEN NaN
  ELSE IF IsInf(x) THEN Inf(x.neg # y.neg)
  ELSE IF IsInf(y) THEN Zero(x.neg # y.neg)
  ELSE IF IsZero(y) THEN Inf(x.neg # y.neg)
  ELSE Round(x.neg # y.neg, x.num * y.den, x.den * y.num)

\* ---- the LQE type and its methods ------------------------------------------
LQE(m, v) == [measurement |-> m, variance |-> v]

\* update weighting each mean by its own variance
update_own_weights(self, measurement, variance) ==
  LET a == Add(self.variance, variance)
      c == Add(Mul(self.measurement, self.variance), Mul(measurement, variance))
      m == Mul(Div(Num(1), a), c)
      b == Mul(self.variance, measurement)
      z == Div(b, a)
  IN  <<m, z>>

\* update with the product of the two variances as the new variance
update_textbook(self, measurement, variance) ==
  LET a == Add(self.variance, variance)
      c == Add(Mul(self.measurement, variance), Mul(measurement, self.variance))
      m == Mul(Div(Num(1), a), c)
      b == Mul(self.variance, variance)
      z == Div(b, a)
  IN  <<m, z>>

\* update dividing by the difference of the variances
update_diff_divisor(self, measurement, variance) ==
  LET a == Add(self.variance, [variance EXCEPT !.neg = ~variance.neg])
      c == Add(Mul(self.measurement, variance), Mul(measurement, self.variance))
      m == Mul(Div(Num(1), a), c)
      b == Mul(self.variance, measurement)
      z == Div(b, a)
  IN  <<m, z>>

update(self, measurement, variance) ==
  LET a == Add(self.variance, variance)
      c == Add(Mul(self.measurement, variance), Mul(measurement, self.variance))
      m == Mul(Div(Num(1), a), c)
      b == Mul(self.variance, measurement)
      z == Div(b, a)
  IN  <<m, z>>

\* predict that leaves the variance as it was
predict_keeps_variance(self, measurement, variance) ==
  LET predicted_measurement == Add(self.measurement, measurement)
      predicted_variance == self.variance
  IN  <<predicted_measurement, predicted_variance>>

predict(self, measurement, variance) ==
  LET predicted_measurement == Add(self.measurement, measurement)
      predicted_variance == Add(self.variance, variance)
  IN  <<predicted_measurement, predicted_variance>>

\* next fusing the prediction (as receiver) with the raw observation
next_swapped(self, measurement, variance) ==
  LET prediction == predict(self, measurement, variance)
      mid_filter == LQE(prediction[1], prediction[2])
      updated_result == update(mid_filter, measurement, variance)
  IN  LQE(updated_result[1], updated_result[2])

\* next fusing the observation with the receiver itself, not its prediction
next_no_predict(self, measurement, variance) ==
  LET mid_filter == LQE(measurement, variance)
      updated_result == update(mid_filter, self.measurement, self.variance)
  IN  LQE(updated_result[1], updated_result[2])

next(self, measurement, variance) ==
  LET prediction == predict(self, measurement, variance)
      mid_filter == LQE(measurement, variance)
      updated_result == update(mid_filter, prediction[1], prediction[2])
  IN  LQE(updated_result[1], updated_result[2])

\* result with the two fields in the wrong order
result_swapped(self) == <<self.variance, self.measurement>>

result(self) == <<self.measurement, self.variance>>

\* ---- the caller ---------------------------------------------------------------
\* initial values a caller constructs (struct literal, no validation)
Priors ==
  { LQE(Num(7), Num(2)), LQE(Num(3), Num(2)),
    LQE(Num(7), Num(-2)), LQE(Num(-10), Num(0)) }

\* (measurement, variance) arguments a caller passes to next
Steps ==
  { <<Num(5), Num(3)>>, <<Num(7), Num(1)>> }

\* (measurement, variance) arguments a caller passes to update and predict
Observations ==
  Steps \cup { <<Num(10), Num(2)>>, <<Num(7), Num(3)>>,
               <<Num(7), Num(0)>>, <<Num(-7), Num(3)>> }

NoCall == [op |-> "none", self |-> 0, measurement |-> NaN, variance |-> NaN,
           ret |-> <<>>]

\* a call returning a tuple leaves the values held as they are
Returned(op, i, m, v, r) ==
  /\ last' = [op |-> op, self |-> i, measurement |-> m, variance |-> v,
              ret |-> r]
  /\ UNCHANGED <<arith, lqes, made>>

\* next writing its result into the receiver as well
HeldInPlace(held, i, new) == Append([held EXCEPT ![i] = new], new)

\* next returns a new LQE by value; the receiver is borrowed immutably
Held(held, i, new) == Append(held, new)

Init ==
  /\ arith \in {"real", "float"}
  /\ lqes = << >>
  /\ made = << >>
  /\ last = NoCall

\* let lqe = LQE { measurement: .., variance: .. };
\* a run starts from one prior; every other value held comes from next
New ==
  /\ Len(lqes) = 0
  /\ \E b \in Priors :
       /\ lqes' = Append(lqes, b)
       /\ made' = Append(made, [by |-> "new", from |-> 0,
                                measurement |-> b.measurement,
                                variance |-> b.variance, was |-> b])
  /\ last' = NoCall
  /\ UNCHANGED arith

\* lqe.update(m, v)
CallUpdate ==
  \E i \in 1..Len(lqes), o \in Observations :
    Returned("update", i, o[1], o[2], update(lqes[i], o[1], o[2]))

\* lqe.predict(m, v)
CallPredict ==
  \E i \in 1..Len(lqes), o \in Observations :
    Returned("predict", i, o[1], o[2], predict(lqes[i], o[1], o[2]))

\* lqe.result()
CallResult ==
  \E i \in 1..Len(lqes) :
    Returned("result", i, NaN, NaN, result(lqes[i]))

\* let n = lqe.next(m, v);
CallNext ==
  /\ Len(lqes) < MaxLQE
  /\ \E i \in 1..Len(lqes), o \in Steps :
       LET n == next(lqes[i], o[1], o[2])
       IN  /\ lqes' = Held(lqes, i, n)
           /\ made' = Append(made, [by |-> "next", from |-> i,
                                    measurement |-> o[1], variance |-> o[2],
                                    was |-> n])
           /\ last' = [op |-> "next", self |-> i, measurement |-> o[1],
                       variance |-> o[2], ret |-> <<>>]
  /\ UNCHANGED arith

Next == New \/ CallUpdate \/ CallPredict \/ CallResult \/ CallNext

Spec == Init /\ [][Next]_vars

\* ---- the mathematics the properties are stated in -------------------------
\* exact rational arithmetic on finite values, whatever arith is
QVal(N, D) == IF N = 0 THEN Zero(FALSE)
              ELSE IF N < 0 THEN Fin(TRUE, -N, D) ELSE Fin(FALSE, N, D)
QAdd(x, y) == QVal(SNum(x) * y.den + SNum(y) * x.den, x.den * y.den)
QSub(x, y) == QVal(SNum(x) * y.den - SNum(y) * x.den, x.den * y.den)
QMul(x, y) == QVal(SNum(x) * SNum(y), x.den * y.den)
\* y is not zero
QDiv(x, y) == IF y.neg THEN QVal(-(SNum(x) * y.den), x.den * y.num)
              ELSE QVal(SNum(x) * y.den, x.den * y.num)
QAbs(x) == [x EXCEPT !.neg = FALSE]

\* comparisons of finite values as numbers (-0 and +0 are the same number)
SameNumber(x, y) ==
  IsFinite(x) /\ IsFinite(y) /\ SNum(x) * y.den = SNum(y) * x.den
Lt(x, y) == SNum(x) * y.den < SNum(y) * x.den
Le(x, y) == SNum(x) * y.den <= SNum(y) * x.den
QMin(x, y) == IF Le(x, y) THEN x ELSE y
QMax(x, y) == IF Le(x, y) THEN y ELSE x

\* x >= 0.0 and x > 0.0 as f64 comparisons (false of NaN)
Ge0(x) == ~IsNaN(x) /\ (IsZero(x) \/ ~x.neg)
Gt0(x) == ~IsNaN(x) /\ ~IsZero(x) /\ ~x.neg

AllFinite(S) == \A x \in S : IsFinite(x)

\* the exact value q is delivered unrounded by an operation
Exact(q) == Round(q.neg, q.num, q.den) = q

\* no operation of update computing the mean / the variance rounds
MeanExact(e, p, m, v) ==
  LET a == QAdd(p, v)
      c == QAdd(QMul(e, v), QMul(m, p))
  IN  /\ Exact(a) /\ Exact(QMul(e, v)) /\ Exact(QMul(m, p)) /\ Exact(c)
      /\ Exact(QDiv(Num(1), a)) /\ Exact(QMul(QDiv(Num(1), a), c))
VarExact(p, m, v) ==
  /\ Exact(QAdd(p, v)) /\ Exact(QMul(p, m))
  /\ Exact(QDiv(QMul(p, m), QAdd(p, v)))

\* the receiver and the arguments of the last call
Self == lqes[last.self]
CalledOn(op, b, m, v) ==
  /\ last.op = op
  /\ Self = b
  /\ last.measurement = m
  /\ last.variance = v

\* lqes[i] was returned by next on lqes[made[i].from]
Stepped(i) == made[i].by = "next"
Parent(i) == lqes[made[i].from]

\* ---- C1 ---------------------------------------------------------------------
\* C1: for every LQE {e, p} and input (m, v), all finite, with a = p + v
\* nonzero, the first component update returns is (e*v + m*p) / a in exact
\* arithmetic: over the reals always, and in floating point whenever none of
\* the operations computing it rounds; update({7, 2}, 10, 2) has estimate 8.5.
C1_FusedMean ==
  /\ last.op = "update" =>
       LET e == Self.measurement
           p == Self.variance
           m == last.measurement
           v == last.variance
       IN  (AllFinite({e, p, m, v}) /\ ~IsZero(QAdd(p, v))
              /\ (arith = "real" \/ MeanExact(e, p, m, v)))
           => SameNumber(last.ret[1],
                         QDiv(QAdd(QMul(e, v), QMul(m, p)), QAdd(p, v)))
  /\ CalledOn("update", LQE(Num(7), Num(2)), Num(10), Num(2))
       => last.ret[1] = Fin(FALSE, 17, 2)

C1_Witness ==
  /\ CalledOn("update", LQE(Num(7), Num(2)), Num(10), Num(2))
  /\ last.ret[1] = Fin(FALSE, 17, 2)

\* ---- C2 ---------------------------------------------------------------------
\* C2: the second component update returns is (p * m) / a, the receiver's
\* variance times the raw measurement over a = p + v: as f64 operations for
\* every input, as an exact value when nothing rounds, and (over the reals,
\* for p # 0 and m # v) different from the textbook (p * v) / a;
\* update({7, 2}, 10, 2) has variance 5.0, not 1.0.
C2_FusedVariance ==
  /\ last.op = "update" =>
       LET p == Self.variance
           m == last.measurement
           v == last.variance
       IN  /\ last.ret[2] = Div(Mul(p, m), Add(p, v))
           /\ (AllFinite({p, m, v}) /\ ~IsZero(QAdd(p, v))
                 /\ (arith = "real" \/ VarExact(p, m, v)))
              => SameNumber(last.ret[2], QDiv(QMul(p, m), QAdd(p, v)))
           /\ (AllFinite({p, m, v}) /\ ~IsZero(QAdd(p, v)) /\ arith = "real"
                 /\ ~IsZero(p) /\ ~SameNumber(m, v))
              => ~SameNumber(last.ret[2], QDiv(QMul(p, v), QAdd(p, v)))
  /\ CalledOn("update", LQE(Num(7), Num(2)), Num(10), Num(2))
       => (last.ret[2] = Num(5) /\ last.ret[2] # Num(1))

C2_Witness ==
  /\ CalledOn("update", LQE(Num(7), Num(2)), Num(10), Num(2))
  /\ last.ret[2] = Num(5)

\* ---- C3 ---------------------------------------------------------------------
\* C3: predict is additive: it returns (self.measurement + m,
\* self.variance + v), each one f64 addition, which for finite inputs is the
\* exact sum whenever that sum is delivered unrounded;
\* predict({7, 2}, 10, 2) = (17, 4).
C3_PredictAdditive ==
  /\ last.op = "predict" =>
       LET e == Self.measurement
           p == Self.variance
           m == last.measurement
           v == last.variance
       IN  /\ last.ret = <<Add(e, m), Add(p, v)>>
           /\ (AllFinite({e, m}) /\ Exact(QAdd(e, m)))
              => SameNumber(last.ret[1], QAdd(e, m))
           /\ (AllFinite({p, v}) /\ Exact(QAdd(p, v)))
              => SameNumber(last.ret[2], QAdd(p, v))
  /\ CalledOn("predict", LQE(Num(7), Num(2)), Num(10), Num(2))
       => last.ret = <<Num(17), Num(4)>>

C3_Witness ==
  /\ CalledOn("predict", LQE(Num(7), Num(2)), Num(10), Num(2))
  /\ last.ret = <<Num(17), Num(4)>>

C5_NoMutation ==
  /\ Len(made) = Len(lqes)
  /\ \A i \in 1..Len(lqes) : lqes[i] = made[i].was
  /\ last.op = "result" =>
       last.ret = <<made[last.self].was.measurement,
                    made[last.self].was.variance>>
  /\ \A i, k \in 1..Len(lqes) :
       (Stepped(i) /\ Stepped(k) /\ made[i].from = made[k].from
          /\ made[i].measurement = made[k].measurement
          /\ made[i].variance = made[k].variance)
       => lqes[i] = lqes[k]

C5_Witness ==
  /\ Len(lqes) = 3
  /\ Stepped(2) /\ made[2].from = 1
  /\ Stepped(3) /\ made[3].from = 1
  /\ made[2].measurement = made[3].measurement
  /\ made[2].variance = made[3].variance
  /\ lqes[2] = lqes[3]
  /\ last.op = "result" /\ last.self = 1
  /\ last.ret = <<made[1].measurement, made[1].variance>>

\* ---- C6 ---------------------------------------------------------------------
\* C6: result returns the stored pair (measurement, variance) as it is, for
\* an LQE constructed directly and for one returned by next;
\* result({3, 2}) = (3, 2).
C6_ResultProjects ==
  /\ last.op = "result" =>
       /\ last.ret[1] = Self.measurement
       /\ last.ret[2] = Self.variance
       /\ Len(last.ret) = 2
  /\ (last.op = "result" /\ Self = LQE(Num(3), Num(2)))
       => last.ret = <<Num(3), Num(2)>>

C6_Witness ==
  /\ last.op = "result"
  /\ Stepped(last.self)
  /\ Parent(last.self) = LQE(Num(3), Num(2))
  /\ last.ret = <<lqes[last.self].measurement, lqes[last.self].variance>>

\* ---- C7 ---------------------------------------------------------------------
\* C7 as claimed: for any LQE and any input with v > 0, update returns a
\* finite variance (the divisor a = self.variance + v is nonzero).
C7_AsClaimed ==
  (arith = "float" /\ last.op = "update" /\ Gt0(last.variance)) =>
    /\ ~IsZero(Add(Self.variance, last.variance))
    /\ IsFinite(last.ret[2])

\* C7, amended: for any LQE with variance >= 0 and any input with v > 0 the
\* divisor a = self.variance + v is positive, so nothing is divided by zero,
\* and the variance returned is finite whenever self.variance * m is finite;
\* with both variances >= 0, a = 0 only when both are zero.
C7_DivisorPositive ==
  last.op = "update" =>
    LET p == Self.variance
        m == last.measurement
        v == last.variance
    IN  /\ (Ge0(p) /\ Gt0(v)) =>
             /\ Gt0(Add(p, v))
             /\ IsFinite(Mul(p, m)) => IsFinite(last.ret[2])
        /\ (Ge0(p) /\ Ge0(v) /\ IsZero(Add(p, v))) => (IsZero(p) /\ IsZero(v))

C7_Witness ==
  /\ last.op = "update"
  /\ Ge0(Self.variance) /\ Gt0(last.variance)
  /\ IsFinite(Self.variance) /\ ~IsZero(Self.variance)
  /\ IsFinite(last.ret[2]) /\ ~IsZero(last.ret[2])

\* ---- C8 ---------------------------------------------------------------------
\* an LQE reached from an initial variance >= 0 by next calls whose
\* observation variances are > 0 and whose measurements are finite
RECURSIVE ValidRun(_)
ValidRun(i) ==
  IF Stepped(i)
    THEN /\ Gt0(made[i].variance) /\ IsFinite(made[i].variance)
         /\ IsFinite(made[i].measurement)
         /\ ValidRun(made[i].from)
    ELSE Ge0(made[i].variance) /\ AllFinite({made[i].measurement,
                                             made[i].variance})

\* C8 as claimed: every LQE reached in valid operation has variance >= 0.
C8_AsClaimed ==
  arith = "float" =>
    \A i \in 1..Len(lqes) : ValidRun(i) => Ge0(lqes[i].variance)

\* ---- C9 ---------------------------------------------------------------------
\* C9 as claimed: for finite e, m and p >= 0, v >= 0 with p + v > 0 the mean
\* update returns lies in [min(e, m), max(e, m)] and is at least as close to
\* the input whose variance is smaller.
C9_AsClaimed ==
  last.op = "update" =>
    LET e == Self.measurement
        p == Self.variance
        m == last.measurement
        v == last.variance
        r == last.ret[1]
    IN  (arith = "float" /\ AllFinite({e, p, m, v})
           /\ Ge0(p) /\ Ge0(v) /\ Gt0(QAdd(p, v)))
        => /\ IsFinite(r)
           /\ Le(QMin(e, m), r) /\ Le(r, QMax(e, m))
           /\ Le(p, v) => Le(QAbs(QSub(r, e)), QAbs(QSub(r, m)))
           /\ Le(v, p) => Le(QAbs(QSub(r, m)), QAbs(QSub(r, e)))

\* ---- C10 --------------------------------------------------------------------
\* the closed form of one step
ClosedEstimate(e, p, m, v) ==
  QAdd(m, QDiv(QMul(e, v), QAdd(p, QMul(Num(2), v))))
ClosedVariance(e, p, m, v) ==
  QDiv(QMul(v, QAdd(e, m)), QAdd(p, QMul(Num(2), v)))

\* no operation of next computing the variance / the mean rounds
StepVarExact(e, p, m, v) ==
  /\ Exact(QAdd(e, m)) /\ Exact(QAdd(p, v))
  /\ VarExact(v, QAdd(e, m), QAdd(p, v))
StepMeanExact(e, p, m, v) ==
  /\ Exact(QAdd(e, m)) /\ Exact(QAdd(p, v))
  /\ MeanExact(m, v, QAdd(e, m), QAdd(p, v))

\* the closed form computed in the arithmetic of the program
ClosedEstimateF64(e, p, m, v) ==
  Add(m, Div(Mul(e, v), Add(p, Mul(Num(2), v))))
ClosedVarianceF64(e, p, m, v) ==
  Div(Mul(v, Add(e, m)), Add(p, Mul(Num(2), v)))

\* C10 as claimed: next returns estimate m + e*v / (p + 2v) and variance
\* v*(e + m) / (p + 2v) whenever p + 2v is nonzero.
C10_AsClaimed ==
  \A i \in 1..Len(lqes) :
    (arith = "float" /\ Stepped(i)) =>
      LET e == Parent(i).measurement
          p == Parent(i).variance
          m == made[i].measurement
          v == made[i].variance
      IN  (AllFinite({e, p, m, v}) /\ ~IsZero(QAdd(p, QMul(Num(2), v))))
          => /\ lqes[i].measurement = ClosedEstimateF64(e, p, m, v)
             /\ lqes[i].variance = ClosedVarianceF64(e, p, m, v)

\* C10, amended: in exact arithmetic, that is over the reals and in floating
\* point whenever no operation of the step rounds, next on {e, p} with
\* (m, v), all finite and p + 2v nonzero, returns estimate m + e*v / (p + 2v)
\* and variance v*(e + m) / (p + 2v).
C10_ClosedForm ==
  \A i \in 1..Len(lqes) :
    Stepped(i) =>
      LET e == Parent(i).measurement
          p == Parent(i).variance
          m == made[i].measurement
          v == made[i].variance
      IN  (AllFinite({e, p, m, v}) /\ ~IsZero(QAdd(p, QMul(Num(2), v))))
          => /\ (arith = "real" \/ StepMeanExact(e, p, m, v))
                => SameNumber(lqes[i].measurement, ClosedEstimate(e, p, m, v))
             /\ (arith = "real" \/ StepVarExact(e, p, m, v))
                => SameNumber(lqes[i].variance, ClosedVariance(e, p, m, v))

C10_Witness ==
  /\ Len(lqes) = 2
  /\ lqes[1] = LQE(Num(7), Num(2))
  /\ Stepped(2)
  /\ made[2].measurement = Num(7) /\ made[2].variance = Num(1)
  /\ lqes[2] = LQE(Fin(FALSE, 35, 4), Fin(FALSE, 7, 2))

====
